---- MODULE Spec2Model ----
(***************************************************************************)
(* A model of garmin_bulk_importer.GarminBulkExport: the construction of   *)
(* the facade from a bulk export directory (file catalog, activity         *)
(* summaries, sleep and aggregate daily records, recording-file index and  *)
(* its cache) and the queries served afterwards.                           *)
(*                                                                         *)
(* Python values are modelled as follows.  A dict is a function whose      *)
(* domain is its set of keys, so "k in d" is k \in DOMAIN d.  None is the  *)
(* empty tuple and an optional number v is <<v>>.  A calendar-date string  *)
(* is [day, pad]: the day it names and whether the text carries            *)
(* surrounding whitespace.  A datetime is [ts, aware]: seconds since the   *)
(* epoch and whether it carries a UTC tzinfo.                              *)
(***************************************************************************)
EXTENDS Integers, Sequences, FiniteSets, TLC

\* ------------------------------------------------------------------ bounds
MaxObjs == 2      \* per-day objects in one JSON family
MaxActs == 2      \* activity summaries in the export
MaxFit  == 2      \* entries inside the recording archives
MaxRuns == 2      \* facades constructed, one after another, on the export root

\* --------------------------------------------------------- python helpers
None == <<>>
Some(v) == <<v>>
EmptyDict == <<>>

Get(d, k, default) == IF k \in DOMAIN d THEN d[k] ELSE default

\* d[k] = v on a dict
Put(d, k, v) == [x \in (DOMAIN d) \cup {k} |-> IF x = k THEN v ELSE d[x]]

DaySeconds == 24 * 60 * 60

\* str.strip() on a calendar-date string
strip(s) == [s EXCEPT !.pad = FALSE]

\* an ISO-8601 wall-clock string naming the instant ts, with or without an offset
IsoStr(ts, offset) == [iso |-> ts, offset |-> offset]

fromisoformat(s) == [ts |-> s.iso, aware |-> s.offset # ""]

isoformat(dt) == IsoStr(dt.ts, IF dt.aware THEN "+00:00" ELSE "")

replace_utc(dt) == [dt EXCEPT !.aware = TRUE]

iso_to_timestamp_ms(iso_str) == replace_utc(fromisoformat(iso_str)).ts * 1000

Path(s) == [path |-> s]
str(p) == p.path

RECURSIVE SumSeq(_)
SumSeq(s) == IF s = <<>> THEN 0 ELSE Head(s) + SumSeq(Tail(s))

RECURSIVE Flatten(_)
Flatten(ss) == IF ss = <<>> THEN <<>> ELSE Head(ss) \o Flatten(Tail(ss))

MAX_TIME_DIFF_SECONDS == 300

Abs(x) == IF x < 0 THEN -x ELSE x


\* ---------------------------------------------------------------- state
VARIABLES
    disk,             \* the export root: a sequence of [path, data], in os.walk order
    cacheFile,        \* fit_file_index.json: NoFile, or its JSON content
    pc,               \* the facade's position: a constructor stage, "ready" or "failed"
    error,            \* the message of the exception that ended construction, or ""
    all_files,        \* self.all_files
    activities,       \* self.activities
    sleep_stats,      \* self.sleep_stats
    agg_stats,        \* self.agg_stats
    hydration_stats,  \* self.hydration_stats
    fit_file_index,   \* self.fit_file_index
    call,             \* the last query served: [op, args, status, value]
    io,               \* what the current run did on the file system, in order
    run,              \* how many facades have been constructed on the export root
    prev              \* the recording index and io of the previous run

vars == <<disk, cacheFile, pc, error, all_files, activities, sleep_stats,
          agg_stats, hydration_stats, fit_file_index, call, io, run, prev>>

NoFile == [exists |-> FALSE]
FileOf(content) == [exists |-> TRUE, content |-> content]

\* -------------------------------------------------------- the file system
\* A path is [family, n]: the part of its text the loaders' patterns look at,
\* and a number telling the files of one family apart.
SUMMARY_FAMILY == "DI-Connect-Fitness/summarizedActivities.json"
SLEEP_FAMILY   == "DI-Connect-Wellness/sleepData.json"
AGG_FAMILY     == "DI-Connect-Aggregator/UDSFile.json"
ZIP_FAMILY     == "DI-Connect-Uploaded-Files/UploadedFiles.zip"

re_search(family, p) == str(p).family = family

exists(p) == \E i \in 1..Len(disk) : disk[i].path = str(p)

open(p) == disk[CHOOSE i \in 1..Len(disk) : disk[i].path = str(p)].data

Ok(v) == [ok |-> TRUE, value |-> v]
Fail(msg) == [ok |-> FALSE, error |-> msg]

get_all_files == [i \in 1..Len(disk) |-> Path(disk[i].path)]

\* ------------------------------------------------------ load_activities
\* strftime("%Y-%m-%d %H:%M:%S") of a UTC instant: the text is [date, time]
strftime(ts) == [date |-> ts \div DaySeconds, time |-> ts % DaySeconds]

\* datetime.strptime of that text (naive)
strptime(text) == [ts |-> text.date * DaySeconds + text.time, aware |-> FALSE]

\* str < str on two such texts: lexicographic
StrLess(a, b) == a.date < b.date \/ (a.date = b.date /\ a.time < b.time)

\* datetime.fromtimestamp(ms / 1000, tz=utc): the fraction of a second survives here
\* and is dropped by strftime
fromtimestamp_ms(ms) == ms \div 1000

normalize_activity(a) ==
    LET activity_type == Get(a, "activityType", None)
    IN  [x \in (DOMAIN a) \cup {"startTimeGMT", "activityName", "activityType",
                                "averageSpeed", "maxHR", "averageHR"} |->
            CASE x = "startTimeGMT" -> strftime(fromtimestamp_ms(a["startTimeGmt"]))
              [] x = "activityName" -> Get(a, "name", activity_type)
              [] x = "activityType" -> [typeKey |-> activity_type]
              [] x = "averageSpeed" -> Get(a, "avgSpeed", None)
              [] x = "maxHR"        -> Get(a, "maxHr", None)
              [] x = "averageHR"    -> Get(a, "avgHr", None)
              [] OTHER              -> a[x]]

\* sorted(..., key=startTimeGMT): stable
RECURSIVE InsertSorted(_, _)
InsertSorted(s, a) ==
    IF s = <<>> THEN <<a>>
    ELSE IF StrLess(a["startTimeGMT"], Head(s)["startTimeGMT"]) THEN <<a>> \o s
    ELSE <<Head(s)>> \o InsertSorted(Tail(s), a)

RECURSIVE sorted(_)
sorted(s) == IF s = <<>> THEN <<>>
             ELSE InsertSorted(sorted(SubSeq(s, 1, Len(s) - 1)), s[Len(s)])

\* one summary file: a list of export batches, each with a list of summaries
RECURSIVE ExtendBatches(_)
ExtendBatches(data) ==
    IF data = <<>> THEN <<>>
    ELSE Head(data)["summarizedActivitiesExport"] \o ExtendBatches(Tail(data))

RECURSIVE ExtendFiles(_)
ExtendFiles(paths) ==
    IF paths = <<>> THEN <<>>
    ELSE ExtendBatches(open(Head(paths))) \o ExtendFiles(Tail(paths))

load_activities ==
    LET summary_file_paths == SelectSeq(all_files, LAMBDA p : re_search(SUMMARY_FAMILY, p))
        raw == ExtendFiles(summary_file_paths)
    IN  IF summary_file_paths = <<>> THEN EmptyDict
        ELSE sorted([i \in 1..Len(raw) |-> normalize_activity(raw[i])])

\* ----------------------------------------------------- load_sleep_stats
\* the body of "for stats in data": acc is Ok(sleep_stats so far) or a failure
sleep_merge_object(acc, stats) ==
    IF ~acc.ok THEN acc
    ELSE IF "calendarDate" \notin DOMAIN stats THEN acc
    ELSE LET stats_date == stats["calendarDate"]
         IN  IF stats_date \in DOMAIN acc.value
             THEN Fail("Duplicate entries found for sleep stats")
             ELSE IF "sleepEndTimestampGMT" \notin DOMAIN stats
             THEN Fail("KeyError: sleepEndTimestampGMT")
             ELSE Ok(Put(acc.value, strip(stats_date),
                         [stats EXCEPT !["sleepEndTimestampGMT"] = iso_to_timestamp_ms(@)]))

RECURSIVE sleep_merge_file(_, _)
sleep_merge_file(acc, data) ==
    IF data = <<>> THEN acc
    ELSE sleep_merge_file(sleep_merge_object(acc, Head(data)), Tail(data))

RECURSIVE sleep_merge_files(_, _)
sleep_merge_files(acc, paths) ==
    IF paths = <<>> \/ ~acc.ok THEN acc
    ELSE sleep_merge_files(sleep_merge_file(acc, open(Head(paths))), Tail(paths))

\* load_sleep_stats without the check for an empty family
load_sleep_stats_unchecked ==
    LET sleep_stats_paths == SelectSeq(all_files, LAMBDA p : re_search(SLEEP_FAMILY, p))
    IN  sleep_merge_files(Ok(EmptyDict), sleep_stats_paths)

load_sleep_stats ==
    LET sleep_stats_paths == SelectSeq(all_files, LAMBDA p : re_search(SLEEP_FAMILY, p))
    IN  IF sleep_stats_paths = <<>> THEN Fail("Failed to find any sleep stats files")
        ELSE sleep_merge_files(Ok(EmptyDict), sleep_stats_paths)

\* ------------------------------------------------------- get_sleep_data
get_sleep_data(date_str) ==
    IF date_str \notin DOMAIN sleep_stats
    THEN [dailySleepDTO |-> [sleepEndTimestampGMT |-> None]]
    ELSE [dailySleepDTO |-> sleep_stats[date_str]]

\* ------------------------------------------- calculate_sleeping_seconds
calculate_sleeping_seconds(date_str) ==
    LET sleep_data == get_sleep_data(date_str)
        stats == sleep_data["dailySleepDTO"]
        total == IF DOMAIN stats # {}
                 THEN SumSeq(<<Get(stats, "deepSleepSeconds", 0),
                               Get(stats, "lightSleepSeconds", 0),
                               Get(stats, "awakeSleepSeconds", 0),
                               Get(stats, "unmeasurableSeconds", 0)>>)
                 ELSE 0
    IN  IF total > 0 THEN Some(total) ELSE None

\* ------------------------------------------------------- load_agg_stats
\* agg_merge_object that keeps the first hydration entry of a date
agg_merge_object_keep_first(acc, stats) ==
    IF ~acc.ok THEN acc
    ELSE IF "hydration" \in DOMAIN stats
    THEN LET h == stats["hydration"]
             stats_date == h["calendarDate"]
         IN  IF strip(stats_date) \in DOMAIN acc.value[2] THEN acc
             ELSE Ok(<<acc.value[1], Put(acc.value[2], strip(stats_date), h)>>)
    ELSE LET stats_date == stats["calendarDate"]
         IN  IF stats_date \in DOMAIN acc.value[1]
             THEN Fail("Duplicate entries found for aggregated stats")
             ELSE Ok(<<Put(acc.value[1], strip(stats_date),
                           Put(stats, "sleepingSeconds",
                               calculate_sleeping_seconds(stats_date))),
                       acc.value[2]>>)

\* the body of "for stats in data": acc is Ok(<<agg_stats, hydration_stats>>) so far
agg_merge_object(acc, stats) ==
    IF ~acc.ok THEN acc
    ELSE IF "hydration" \in DOMAIN stats
    THEN LET h == stats["hydration"]
             stats_date == h["calendarDate"]
         IN  Ok(<<acc.value[1], Put(acc.value[2], strip(stats_date), h)>>)
    ELSE LET stats_date == stats["calendarDate"]
         IN  IF stats_date \in DOMAIN acc.value[1]
             THEN Fail("Duplicate entries found for aggregated stats")
             ELSE Ok(<<Put(acc.value[1], strip(stats_date),
                           Put(stats, "sleepingSeconds",
                               calculate_sleeping_seconds(stats_date))),
                       acc.value[2]>>)

RECURSIVE agg_merge_file(_, _)
agg_merge_file(acc, data) ==
    IF data = <<>> THEN acc
    ELSE agg_merge_file(agg_merge_object(acc, Head(data)), Tail(data))

RECURSIVE agg_merge_files(_, _)
agg_merge_files(acc, paths) ==
    IF paths = <<>> \/ ~acc.ok THEN acc
    ELSE agg_merge_files(agg_merge_file(acc, open(Head(paths))), Tail(paths))

load_agg_stats ==
    LET agg_stats_paths == SelectSeq(all_files, LAMBDA p : re_search(AGG_FAMILY, p))
    IN  IF agg_stats_paths = <<>> THEN Fail("Failed to find any aggregated stats files")
        ELSE agg_merge_files(Ok(<<EmptyDict, EmptyDict>>), agg_stats_paths)

\* ------------------------------------------------- the recording index
FitFileEntry(date, activity, zip_file_name, fit_file_name) ==
    [date |-> date, activity |-> activity,
     zip_file_name |-> zip_file_name, fit_file_name |-> fit_file_name]

\* cache_fit_file_index: the JSON document written to output_path
cache_fit_file_index(index) ==
    [i \in 1..Len(index) |->
        [date          |-> isoformat(index[i].date),
         zip_file_name |-> str(index[i].zip_file_name),
         fit_file_name |-> index[i].fit_file_name,
         activity      |-> index[i].activity]]

\* load_cached_fit_file_index: None when the file is absent
load_cached_fit_file_index ==
    IF ~cacheFile.exists THEN None
    ELSE LET data == cacheFile.content
         IN  Some([i \in 1..Len(data) |->
                     FitFileEntry(fromisoformat(data[i].date), data[i].activity,
                                  Path(data[i].zip_file_name), data[i].fit_file_name)])

\* a file name inside an archive is [dir, stem, ext]
lower(filename) == [filename EXCEPT !.ext = IF @ = "FIT" THEN "fit" ELSE @]
endswith_fit(filename) == filename.ext = "fit"
basename(filename) == [filename EXCEPT !.dir = ""]

\* "for msg in fit_file.messages": st is [ok, sport, date], sport and date optional
RECURSIVE scan_messages(_, _)
scan_messages(st, msgs) ==
    IF msgs = <<>> \/ ~st.ok THEN st
    ELSE LET msg == Head(msgs)
         IN  IF msg.name # "session" THEN scan_messages(st, Tail(msgs))
             ELSE IF "start_time" \notin DOMAIN msg.fields
             THEN [st EXCEPT !.ok = FALSE]
             ELSE scan_messages(
                     [ok    |-> TRUE,
                      date  |-> Some(replace_utc(msg.fields["start_time"])),
                      sport |-> Get(msg.fields, "sport", Some("Unknown"))],
                     Tail(msgs))

\* index_archive_entry that skips a recording file that does not decode
index_archive_entry_skip_corrupt(acc, zip_file_path, member) ==
    IF ~acc.ok THEN acc
    ELSE IF ~endswith_fit(lower(member.filename)) THEN acc
    ELSE IF member.content.parse_error THEN acc
    ELSE LET st == scan_messages([ok |-> TRUE, date |-> None, sport |-> None],
                                 member.content.messages)
         IN  IF ~st.ok THEN Fail("KeyError: start_time")
             ELSE IF st.sport # None /\ st.date # None
             THEN Ok(Append(acc.value,
                            FitFileEntry(st.date[1], st.sport[1],
                                         zip_file_path, member.filename)))
             ELSE acc

\* the body of "for i, filename in enumerate(namelist)": acc is Ok(index so far)
index_archive_entry(acc, zip_file_path, member) ==
    IF ~acc.ok THEN acc
    ELSE IF ~endswith_fit(lower(member.filename)) THEN acc
    ELSE IF member.content.parse_error THEN Fail("Failed to parse FIT file")
    ELSE LET st == scan_messages([ok |-> TRUE, date |-> None, sport |-> None],
                                 member.content.messages)
         IN  IF ~st.ok THEN Fail("KeyError: start_time")
             ELSE IF st.sport # None /\ st.date # None
             THEN Ok(Append(acc.value,
                            FitFileEntry(st.date[1], st.sport[1],
                                         zip_file_path, member.filename)))
             ELSE acc

RECURSIVE index_archive(_, _, _)
index_archive(acc, zip_file_path, members) ==
    IF members = <<>> THEN acc
    ELSE index_archive(index_archive_entry(acc, zip_file_path, Head(members)),
                       zip_file_path, Tail(members))

\* "for zip_file_path in zip_file_paths": opened lists the archives opened so far
RECURSIVE index_archives(_, _, _)
index_archives(acc, opened, paths) ==
    IF paths = <<>> \/ ~acc.ok THEN [res |-> acc, opened |-> opened]
    ELSE index_archives(index_archive(acc, Head(paths), open(Head(paths))),
                        Append(opened, Head(paths)), Tail(paths))

\* load_fit_file_index up to, and without, the call of cache_fit_file_index
load_fit_file_index ==
    LET zip_file_paths == SelectSeq(all_files, LAMBDA p : re_search(ZIP_FAMILY, p))
    IN  index_archives(Ok(<<>>), <<>>, zip_file_paths)

\* --------------------------------------------------------------- queries
\* what a query did: its result (returned, or raised), the recording-index entry
\* it logged as matched and the archive it opened, if any
Result(op, args, status, value) ==
    [op |-> op, args |-> args, status |-> status, value |-> value,
     matched |-> None, opened |-> None]
Returned(op, args, value) == Result(op, args, "ok", value)
\* self.fail(msg): GarminBulkImporterError
Failed(op, args, msg) == Result(op, args, "fail", msg)
\* any other exception
Raised(op, args, msg) == Result(op, args, "error", msg)

get_last_activity ==
    IF Len(activities) = 0 THEN Raised("get_last_activity", <<>>, "IndexError")
    ELSE Returned("get_last_activity", <<>>, activities[Len(activities)])

get_stats(date_str) ==
    IF date_str \notin DOMAIN agg_stats
       \/ ~Get(agg_stats[date_str], "includesWellnessData", TRUE)
    THEN [wellnessStartTimeGmt |-> None]
    ELSE agg_stats[date_str]

get_hydration_data(date_str) == Get(hydration_stats, date_str, EmptyDict)

\* datetime.strptime(date_str, "%Y-%m-%d")
strptime_date(date_str) == [ts |-> date_str.day * DaySeconds, aware |-> FALSE]

\* end_of_day that leaves the end at midnight
end_of_day_midnight(dt) == dt

\* dt.replace(hour=23, minute=59, second=59) on a midnight
end_of_day(dt) == [dt EXCEPT !.ts = @ + 23 * 3600 + 59 * 60 + 59]

get_activities_by_date(start_date_str, end_date_str) ==
    LET start_dt == strptime_date(start_date_str)
        end_dt == end_of_day(strptime_date(end_date_str))
        InRange(act) == LET act_dt == strptime(act["startTimeGMT"])
                        IN  start_dt.ts <= act_dt.ts /\ act_dt.ts <= end_dt.ts
    IN  SelectSeq(activities, InRange)

ORIGINAL == 0
TCX == 1

\* closest_match with "delta <= best_delta": the last of the nearest entries wins
RECURSIVE closest_match_last_tie(_, _, _)
closest_match_last_tie(best, index, activity_start) ==
    IF index = <<>> THEN [ok |-> TRUE, best |-> best]
    ELSE LET entry == Head(index)
             delta == Abs(entry.date.ts - activity_start.ts)
         IN  IF entry.date.aware # activity_start.aware THEN [ok |-> FALSE, best |-> best]
             ELSE IF delta <= MAX_TIME_DIFF_SECONDS /\ (best = None \/ delta <= best[1][2])
             THEN closest_match_last_tie(Some(<<entry, delta>>), Tail(index), activity_start)
             ELSE closest_match_last_tie(best, Tail(index), activity_start)

\* closest_match with "delta < MAX_TIME_DIFF_SECONDS": the tolerance bound excluded
RECURSIVE closest_match_strict(_, _, _)
closest_match_strict(best, index, activity_start) ==
    IF index = <<>> THEN [ok |-> TRUE, best |-> best]
    ELSE LET entry == Head(index)
             delta == Abs(entry.date.ts - activity_start.ts)
         IN  IF entry.date.aware # activity_start.aware THEN [ok |-> FALSE, best |-> best]
             ELSE IF delta < MAX_TIME_DIFF_SECONDS /\ (best = None \/ delta < best[1][2])
             THEN closest_match_strict(Some(<<entry, delta>>), Tail(index), activity_start)
             ELSE closest_match_strict(best, Tail(index), activity_start)

\* "for entry in self.fit_file_index": best is None or Some(<<entry, delta>>);
\* a naive entry date makes the subtraction raise
RECURSIVE closest_match(_, _, _)
closest_match(best, index, activity_start) ==
    IF index = <<>> THEN [ok |-> TRUE, best |-> best]
    ELSE LET entry == Head(index)
             delta == Abs(entry.date.ts - activity_start.ts)
         IN  IF entry.date.aware # activity_start.aware THEN [ok |-> FALSE, best |-> best]
             ELSE IF delta <= MAX_TIME_DIFF_SECONDS /\ (best = None \/ delta < best[1][2])
             THEN closest_match(Some(<<entry, delta>>), Tail(index), activity_start)
             ELSE closest_match(best, Tail(index), activity_start)

\* the in-memory archive returned: its members, [filename, content]
extract_fit(best_match) ==
    LET members == open(best_match.zip_file_name)
        hits == {i \in 1..Len(members) : members[i].filename = best_match.fit_file_name}
    IN  IF ~exists(best_match.zip_file_name) THEN Fail("FileNotFoundError")
        ELSE IF hits = {} THEN Fail("KeyError: no such member")
        ELSE Ok(<<[filename |-> basename(best_match.fit_file_name),
                   content  |-> members[CHOOSE i \in hits : \A j \in hits : i <= j].content]>>)

\* download_activity that looks the activity up before it looks at the format
download_activity_lookup_first(activityId, dl_fmt) ==
    LET args == <<activityId, dl_fmt>>
        hits == {i \in 1..Len(activities) :
                    /\ "activityId" \in DOMAIN activities[i]
                    /\ activities[i]["activityId"] = activityId}
        activity == activities[CHOOSE i \in hits : \A j \in hits : i <= j]
        activity_start == replace_utc(strptime(activity["startTimeGMT"]))
        m == closest_match(None, fit_file_index, activity_start)
        best_match == m.best[1][1]
        bytes == extract_fit(best_match)
    IN  IF hits = {} THEN Failed("download_activity", args, "Activity ID not found")
        ELSE IF dl_fmt = TCX THEN Returned("download_activity", args, <<>>)
        ELSE IF ~m.ok THEN Raised("download_activity", args, "TypeError")
        ELSE IF m.best = None
        THEN Failed("download_activity", args, "No matching FIT file found")
        ELSE IF ~bytes.ok
        THEN [Raised("download_activity", args, bytes.error)
                 EXCEPT !.matched = Some(best_match),
                        !.opened = IF exists(best_match.zip_file_name)
                                   THEN Some(best_match.zip_file_name) ELSE None]
        ELSE [Returned("download_activity", args, bytes.value)
                 EXCEPT !.matched = Some(best_match),
                        !.opened = Some(best_match.zip_file_name)]

download_activity(activityId, dl_fmt) ==
    LET args == <<activityId, dl_fmt>>
        hits == {i \in 1..Len(activities) :
                    /\ "activityId" \in DOMAIN activities[i]
                    /\ activities[i]["activityId"] = activityId}
        activity == activities[CHOOSE i \in hits : \A j \in hits : i <= j]
        activity_start == replace_utc(strptime(activity["startTimeGMT"]))
        m == closest_match(None, fit_file_index, activity_start)
        best_match == m.best[1][1]
        bytes == extract_fit(best_match)
    IN  IF dl_fmt = TCX THEN Returned("download_activity", args, <<>>)
        ELSE IF hits = {} THEN Failed("download_activity", args, "Activity ID not found")
        ELSE IF ~m.ok THEN Raised("download_activity", args, "TypeError")
        ELSE IF m.best = None
        THEN Failed("download_activity", args, "No matching FIT file found")
        ELSE IF ~bytes.ok
        THEN [Raised("download_activity", args, bytes.error)
                 EXCEPT !.matched = Some(best_match),
                        !.opened = IF exists(best_match.zip_file_name)
                                   THEN Some(best_match.zip_file_name) ELSE None]
        ELSE [Returned("download_activity", args, bytes.value)
                 EXCEPT !.matched = Some(best_match),
                        !.opened = Some(best_match.zip_file_name)]

\* ------------------------------------------------- the exports considered
SeqUpTo(S, n) == UNION {[1..k -> S] : k \in 0..n}

\* the files of one family: none; one file of up to n objects; or two files, the
\* first with one object and the second with the others
FamilyShapes(S, n) ==
    {<<>>} \cup {<<f>> : f \in SeqUpTo(S, n)}
           \cup {<< <<a>>, f >> : a \in S, f \in SeqUpTo(S, n - 1) \ {<<>>}}

MkFiles(family, datas) ==
    [i \in 1..Len(datas) |-> [path |-> [family |-> family, n |-> i], data |-> datas[i]]]

\* "1970-01-0d" as written, and with a blank after it
DateStr(day) == [day |-> day, pad |-> FALSE]
Padded(day) == [day |-> day, pad |-> TRUE]

\* sleep-phase fields: the spec's scenario (100 + 200), all zero, and two fields only
Phases300 == [deepSleepSeconds |-> 100, lightSleepSeconds |-> 200,
              awakeSleepSeconds |-> 0, unmeasurableSeconds |-> 0]
Phases0 == [deepSleepSeconds |-> 0, lightSleepSeconds |-> 0,
            awakeSleepSeconds |-> 0, unmeasurableSeconds |-> 0]
Phases42 == [lightSleepSeconds |-> 40, unmeasurableSeconds |-> 2]

SleepObj(date, phases) ==
    phases @@ [calendarDate |-> date,
               sleepEndTimestampGMT |-> IsoStr(date.day * DaySeconds + 6 * 3600, "")]

\* a sleep object without a calendarDate
SleepObjNoDate(phases) == phases @@ [sleepEndTimestampGMT |-> IsoStr(6 * 3600, "")]

SleepObjs == {SleepObj(DateStr(1), Phases300), SleepObj(Padded(1), Phases42),
              SleepObj(DateStr(1), Phases0), SleepObj(DateStr(2), Phases42),
              SleepObjNoDate(Phases300)}

DailyObj(date, steps) == [calendarDate |-> date, totalSteps |-> steps]
DailyObjNoWellness(date) ==
    [calendarDate |-> date, totalSteps |-> 0, includesWellnessData |-> FALSE]
HydrationObj(date, ml) == [hydration |-> [calendarDate |-> date, valueInML |-> ml]]

DailyObjs == {DailyObj(DateStr(1), 1000), DailyObj(Padded(1), 2000),
              DailyObj(DateStr(2), 3000), DailyObjNoWellness(DateStr(1))}
HydrationObjs == {HydrationObj(DateStr(1), 250), HydrationObj(DateStr(1), 500),
                  HydrationObj(Padded(1), 750), HydrationObj(DateStr(2), 250)}

\* activity summaries that start in the last millisecond of a day or at midnight
Summary(id, ms) == [activityId |-> id, startTimeGmt |-> ms, activityType |-> "running"]
Summaries == {Summary(101, DaySeconds * 1000 - 1), Summary(101, DaySeconds * 1000),
              Summary(102, 2 * DaySeconds * 1000 - 1), Summary(102, 2 * DaySeconds * 1000),
              Summary(101, 2 * DaySeconds * 1000)}

Batch(acts) == [summarizedActivitiesExport |-> acts]
\* summary files: each file holds one export batch
SummaryShapes(S, n) ==
    {[i \in 1..Len(fs) |-> <<Batch(fs[i])>>] : fs \in FamilyShapes(S, n)}

\* recording files: session start times around 1970-01-02 00:00:00 (second 86400)
SessionMsg(ts, sport) ==
    [name |-> "session",
     fields |-> sport @@ [start_time |-> [ts |-> ts, aware |-> FALSE]]]
WithSport(sp) == [sport |-> Some(sp)]
NoSport == <<>>
\* the sport field is in the message and its value is None
NullSport == [sport |-> None]
FileIdMsg == [name |-> "file_id", fields |-> [serial_number |-> 1]]
Decoded(msgs) == [parse_error |-> FALSE, messages |-> msgs]
Corrupt == [parse_error |-> TRUE, messages |-> <<>>]
Recording(ext, content) == [ext |-> ext, content |-> content]

\* recordings whose sessions start 10 (twice), 200, 300 and 301 seconds from 86400
MatchMembers ==
    {Recording("fit", Decoded(<<FileIdMsg, SessionMsg(t, WithSport("running"))>>)) :
        t \in {DaySeconds - 10, DaySeconds + 10, DaySeconds + 200,
               DaySeconds + 300, DaySeconds + 301}}

\* what else an archive holds: a file that does not decode, a recording without a
\* session, a session in a file of another extension, an upper-case extension, a
\* session without a sport field and a session whose sport field has no value
IndexMembers ==
    { Recording("fit", Corrupt),
      Recording("fit", Decoded(<<FileIdMsg>>)),
      Recording("txt", Decoded(<<SessionMsg(DaySeconds, WithSport("running"))>>)),
      Recording("FIT", Decoded(<<SessionMsg(DaySeconds + 10, WithSport("cycling"))>>)),
      Recording("fit", Decoded(<<SessionMsg(DaySeconds + 200, NoSport)>>)),
      Recording("fit", Decoded(<<SessionMsg(DaySeconds + 300, NullSport)>>)) }

\* the members of one archive get their names from their places
Archive(ms) ==
    [j \in 1..Len(ms) |->
        [filename |-> [dir |-> "activities/", stem |-> j, ext |-> ms[j].ext],
         content  |-> ms[j].content]]
ArchiveShapes(S, n) ==
    {[i \in 1..Len(fs) |-> Archive(fs[i])] : fs \in FamilyShapes(S, n)}

Export(summary, sleep, agg, zips) ==
    MkFiles(SUMMARY_FAMILY, summary) \o MkFiles(SLEEP_FAMILY, sleep)
        \o MkFiles(AGG_FAMILY, agg) \o MkFiles(ZIP_FAMILY, zips)

\* one ordinary export, which each family below varies a part of
SummaryDefault == << <<Batch(<<Summary(101, DaySeconds * 1000),
                                Summary(102, 2 * DaySeconds * 1000 + 500)>>)>> >>
SleepDefault == << <<SleepObj(DateStr(1), Phases300)>> >>
AggDefault == << <<DailyObj(DateStr(1), 1000)>> >>
ZipDefault ==
    <<Archive(<<Recording("fit", Decoded(<<SessionMsg(DaySeconds + 10, WithSport("running"))>>))>>)>>

Exports ==
    \* the sleep family varied, against a daily record dated as written and padded
    {Export(SummaryDefault, sl, ag, ZipDefault) :
        sl \in FamilyShapes(SleepObjs, MaxObjs),
        ag \in {AggDefault, << <<DailyObj(Padded(1), 2000)>> >>}}
    \* the aggregate family varied: daily entries
    \cup {Export(SummaryDefault, SleepDefault, ag, ZipDefault) :
             ag \in FamilyShapes(DailyObjs, MaxObjs)}
    \* the aggregate family varied: hydration entries and a daily entry
    \cup {Export(SummaryDefault, SleepDefault, ag, ZipDefault) :
             ag \in FamilyShapes(HydrationObjs \cup {DailyObj(DateStr(1), 1000)}, MaxObjs)}
    \* the activity summaries varied
    \cup {Export(su, SleepDefault, AggDefault, ZipDefault) :
             su \in SummaryShapes(Summaries, MaxActs)}
    \* the recordings varied: sessions near the activity of the ordinary export
    \cup {Export(SummaryDefault, SleepDefault, AggDefault, zi) :
             zi \in ArchiveShapes(MatchMembers, MaxFit)}

\* the recordings varied: what the indexing pass keeps, skips and fails on
RecordingExports ==
    {Export(SummaryDefault, SleepDefault, AggDefault, zi) :
        zi \in ArchiveShapes(IndexMembers, MaxFit)}

\* the cache file found by the first run: absent, empty, or left by a run on an
\* export whose archive has since been removed
StaleEntry == [date |-> IsoStr(DaySeconds, "+00:00"),
               zip_file_name |-> [family |-> ZIP_FAMILY, n |-> 0],
               fit_file_name |-> [dir |-> "activities/", stem |-> 1, ext |-> "fit"],
               activity |-> "running"]
CacheFiles == {NoFile, FileOf(<<>>), FileOf(<<StaleEntry>>)}

\* ------------------------------------------------------- construction
NoCall == Result("none", <<>>, "ok", <<>>)
NoPrev == [built |-> FALSE, index |-> <<>>, io |-> <<>>]

Blank ==
    /\ all_files = <<>>
    /\ activities = <<>>
    /\ sleep_stats = <<>>
    /\ agg_stats = <<>>
    /\ hydration_stats = <<>>
    /\ fit_file_index = <<>>
    /\ call = NoCall
    /\ io = <<>>
    /\ error = ""

Init ==
    /\ \/ disk \in Exports /\ cacheFile = NoFile
       \/ disk \in RecordingExports /\ cacheFile \in CacheFiles
    /\ pc = "get_all_files"
    /\ run = 1
    /\ prev = NoPrev
    /\ Blank

Stage(name) == [ev |-> "stage", what |-> name]
OpenZip(p) == [ev |-> "open_zip", what |-> p]
WriteCache == [ev |-> "write_cache", what |-> <<>>]
ReadCache == [ev |-> "read_cache", what |-> <<>>]

\* __init__, line 143
GetAllFiles ==
    /\ pc = "get_all_files"
    /\ all_files' = get_all_files
    /\ io' = Append(io, Stage("get_all_files"))
    /\ pc' = "load_activities"
    /\ UNCHANGED <<disk, cacheFile, error, activities, sleep_stats, agg_stats,
                   hydration_stats, fit_file_index, call, run, prev>>

\* __init__, line 144
LoadActivities ==
    /\ pc = "load_activities"
    /\ activities' = load_activities
    /\ io' = Append(io, Stage("load_activities"))
    /\ pc' = "load_sleep_stats"
    /\ UNCHANGED <<disk, cacheFile, error, all_files, sleep_stats, agg_stats,
                   hydration_stats, fit_file_index, call, run, prev>>

\* __init__, line 147
LoadSleepStats ==
    /\ pc = "load_sleep_stats"
    /\ io' = Append(io, Stage("load_sleep_stats"))
    /\ LET r == load_sleep_stats
       IN  IF r.ok
           THEN /\ sleep_stats' = r.value
                /\ pc' = "load_agg_stats"
                /\ error' = error
           ELSE /\ sleep_stats' = sleep_stats
                /\ pc' = "failed"
                /\ error' = r.error
    /\ UNCHANGED <<disk, cacheFile, all_files, activities, agg_stats,
                   hydration_stats, fit_file_index, call, run, prev>>

\* __init__, line 148
LoadAggStats ==
    /\ pc = "load_agg_stats"
    /\ io' = Append(io, Stage("load_agg_stats"))
    /\ LET r == load_agg_stats
       IN  IF r.ok
           THEN /\ agg_stats' = r.value[1]
                /\ hydration_stats' = r.value[2]
                /\ pc' = "load_cached_fit_file_index"
                /\ error' = error
           ELSE /\ UNCHANGED <<agg_stats, hydration_stats>>
                /\ pc' = "failed"
                /\ error' = r.error
    /\ UNCHANGED <<disk, cacheFile, all_files, activities, sleep_stats,
                   fit_file_index, call, run, prev>>

\* __init__, lines 150-152: the left operand of "or"; a cached index that is
\* None or an empty list is falsy and leaves the right operand to be evaluated
LoadCachedFitFileIndex ==
    /\ pc = "load_cached_fit_file_index"
    /\ io' = Append(io, Stage("load_cached_fit_file_index"))
                 \o (IF cacheFile.exists THEN <<ReadCache>> ELSE <<>>)
    /\ LET cached == load_cached_fit_file_index
       IN  IF cached # None /\ cached[1] # <<>>
           THEN /\ fit_file_index' = cached[1]
                /\ pc' = "ready"
           ELSE /\ fit_file_index' = fit_file_index
                /\ pc' = "load_fit_file_index"
    /\ UNCHANGED <<disk, cacheFile, error, all_files, activities, sleep_stats,
                   agg_stats, hydration_stats, call, run, prev>>

\* __init__, line 153: load_fit_file_index, which ends by writing the cache
LoadFitFileIndex ==
    /\ pc = "load_fit_file_index"
    /\ LET r == load_fit_file_index
           opened == [i \in 1..Len(r.opened) |-> OpenZip(r.opened[i])]
       IN  IF r.res.ok
           THEN /\ fit_file_index' = r.res.value
                /\ cacheFile' = FileOf(cache_fit_file_index(r.res.value))
                /\ io' = (Append(io, Stage("load_fit_file_index")) \o opened) \o <<WriteCache>>
                /\ pc' = "ready"
                /\ error' = error
           ELSE /\ UNCHANGED <<fit_file_index, cacheFile>>
                /\ io' = Append(io, Stage("load_fit_file_index")) \o opened
                /\ pc' = "failed"
                /\ error' = r.res.error
    /\ UNCHANGED <<disk, all_files, activities, sleep_stats, agg_stats,
                   hydration_stats, call, run, prev>>

\* the process ends and a later one constructs a facade on the same export root
NewRun ==
    /\ pc \in {"ready", "failed"}
    /\ run < MaxRuns
    /\ run' = run + 1
    /\ prev' = [built |-> pc = "ready", index |-> fit_file_index, io |-> io]
    /\ pc' = "get_all_files"
    /\ all_files' = <<>>
    /\ activities' = <<>>
    /\ sleep_stats' = <<>>
    /\ agg_stats' = <<>>
    /\ hydration_stats' = <<>>
    /\ fit_file_index' = <<>>
    /\ call' = NoCall
    /\ io' = <<>>
    /\ error' = ""
    /\ UNCHANGED <<disk, cacheFile>>

\* ------------------------------------------------------- queries served
\* the dates asked for: the days of the export and the day before them
QueryDates == {DateStr(d) : d \in {0, 1, 2}}
\* the identifiers asked for: those of the summaries and one that none has
QueryIds == {100, 101, 102}

Serve(result) ==
    /\ pc = "ready"
    /\ call' = result
    /\ UNCHANGED <<disk, cacheFile, pc, error, all_files, activities, sleep_stats,
                   agg_stats, hydration_stats, fit_file_index, io, run, prev>>

GetLastActivity == Serve(get_last_activity)

GetStats == \E d \in QueryDates : Serve(Returned("get_stats", <<d>>, get_stats(d)))

GetSleepData == \E d \in QueryDates : Serve(Returned("get_sleep_data", <<d>>, get_sleep_data(d)))

GetHydrationData ==
    \E d \in QueryDates : Serve(Returned("get_hydration_data", <<d>>, get_hydration_data(d)))

GetActivitiesByDate ==
    \E s \in QueryDates, e \in QueryDates :
        Serve(Returned("get_activities_by_date", <<s, e>>, get_activities_by_date(s, e)))

DownloadActivity ==
    \E id \in QueryIds, fmt \in {ORIGINAL, TCX} : Serve(download_activity(id, fmt))

Next ==
    \/ GetAllFiles
    \/ LoadActivities
    \/ LoadSleepStats
    \/ LoadAggStats
    \/ LoadCachedFitFileIndex
    \/ LoadFitFileIndex
    \/ NewRun
    \/ GetLastActivity
    \/ GetStats
    \/ GetSleepData
    \/ GetHydrationData
    \/ GetActivitiesByDate
    \/ DownloadActivity

Spec == Init /\ [][Next]_vars

\* ================================================================ claims
\* what the claims speak of, read off the state
FirstWith(id) == CHOOSE i \in 1..Len(activities) :
                    /\ activities[i]["activityId"] = id
                    /\ \A j \in 1..(i - 1) : activities[j]["activityId"] # id
HasActivity(id) == \E i \in 1..Len(activities) : activities[i]["activityId"] = id
\* the normalized start time, in seconds, of the activity download_activity(id) finds
StartOf(id) == LET t == activities[FirstWith(id)]["startTimeGMT"]
               IN  t.date * 86400 + t.time
DeltaTo(entry, id) == Abs(entry.date.ts - StartOf(id))
DownloadedOriginal == call.op = "download_activity" /\ call.args[2] = ORIGINAL

\* C1: the entry download_activity(id) selects in the original format lies within
\* 300 seconds of the activity's normalized start time, no entry of the index is
\* nearer, and no entry at the same delta comes before it in the index.
C1_NearestWithinTolerance ==
    (DownloadedOriginal /\ call.matched # None) =>
        LET id == call.args[1]
            E == call.matched[1]
        IN  /\ DeltaTo(E, id) <= 300
            /\ \E i \in 1..Len(fit_file_index) :
                  /\ fit_file_index[i] = E
                  /\ \A j \in 1..Len(fit_file_index) :
                        DeltaTo(fit_file_index[j], id) <= 300 =>
                            \/ DeltaTo(E, id) < DeltaTo(fit_file_index[j], id)
                            \/ DeltaTo(E, id) = DeltaTo(fit_file_index[j], id) /\ i <= j

\* two entries within tolerance share the smallest delta and the first was selected
C1_Witness ==
    /\ DownloadedOriginal
    /\ call.matched # None
    /\ Len(fit_file_index) = 2
    /\ fit_file_index[1].date # fit_file_index[2].date
    /\ DeltaTo(fit_file_index[1], call.args[1]) = DeltaTo(fit_file_index[2], call.args[1])
    /\ DeltaTo(fit_file_index[1], call.args[1]) = 10
    /\ call.matched[1] = fit_file_index[1]

\* the objects of one family, in the order the loader meets them
FamilyObjects(family) ==
    Flatten([i \in 1..Len(SelectSeq(disk, LAMBDA f : f.path.family = family)) |->
                SelectSeq(disk, LAMBDA f : f.path.family = family)[i].data])
SleepObjects == SelectSeq(FamilyObjects(SLEEP_FAMILY), LAMBDA o : "calendarDate" \in DOMAIN o)
DailyObjects == SelectSeq(FamilyObjects(AGG_FAMILY), LAMBDA o : "hydration" \notin DOMAIN o)

\* no two objects name the same calendar date
OnePerDate(objs) ==
    \A i, j \in 1..Len(objs) : i < j => objs[i]["calendarDate"].day # objs[j]["calendarDate"].day

\* every stored record comes from the first object of its calendar date
FirstKept(map, objs, field) ==
    \A k \in DOMAIN map :
        \A i \in 1..Len(objs) :
            (objs[i]["calendarDate"].day = k.day
                /\ \A j \in 1..(i - 1) : objs[j]["calendarDate"].day # k.day)
            => Get(map[k], field, 0) = Get(objs[i], field, 0)

\* C2: a construction that completes has met no second sleep object and no second
\* daily-stats object for a calendar date already merged, and so has overwritten
\* no record of either family.
C2_DuplicateDateAborts ==
    pc = "ready" =>
        /\ OnePerDate(SleepObjects)
        /\ OnePerDate(DailyObjects)
        /\ FirstKept(sleep_stats, SleepObjects, "lightSleepSeconds")
        /\ FirstKept(agg_stats, DailyObjects, "totalSteps")

\* the sum of the four sleep-phase fields of the sleep record for d, 0 without one
SleepSum(d) ==
    IF d \notin DOMAIN sleep_stats THEN 0
    ELSE Get(sleep_stats[d], "deepSleepSeconds", 0) + Get(sleep_stats[d], "lightSleepSeconds", 0)
         + Get(sleep_stats[d], "awakeSleepSeconds", 0)
         + Get(sleep_stats[d], "unmeasurableSeconds", 0)

\* C3: the record get_stats(d) returns carries, as sleepingSeconds, the sum of the
\* four sleep-phase fields of the sleep record for d when that sum is positive and
\* null otherwise (read on the dates get_stats serves a daily record for: the
\* sentinel it returns otherwise has no sleepingSeconds field).
C3_SleepingSecondsIsSleepSum ==
    (call.op = "get_stats" /\ "sleepingSeconds" \in DOMAIN call.value) =>
        call.value["sleepingSeconds"] =
            (IF SleepSum(call.args[1]) > 0 THEN <<SleepSum(call.args[1])>> ELSE <<>>)

InIo(ev) == \E i \in 1..Len(io) : io[i] = ev
OpenedZip(log) == \E i \in 1..Len(log) : log[i].ev = "open_zip"

\* C4: a run that found a cache file uses its deserialized content as the index,
\* opens no archive, runs no indexing pass and does not write the cache.
C4_CacheUsedUnconditionally ==
    InIo(ReadCache) =>
        /\ ~InIo(Stage("load_fit_file_index"))
        /\ ~OpenedZip(io)
        /\ ~InIo(WriteCache)
        /\ pc = "ready" => Some(fit_file_index) = load_cached_fit_file_index

Count(seq, x) == Cardinality({i \in 1..Len(seq) : seq[i] = x})
SameEntries(a, b) ==
    \A x \in {a[i] : i \in 1..Len(a)} \cup {b[i] : i \in 1..Len(b)} : Count(a, x) = Count(b, x)
Wrote(log) == \E i \in 1..Len(log) : log[i] = WriteCache

\* C6: a facade constructed after a run that built the index and wrote the cache
\* gets, from the cache alone and without opening an archive, the entries of
\* that run.
C6_RoundTrip ==
    (run > 1 /\ prev.built /\ Wrote(prev.io) /\ pc = "ready") =>
        /\ ~OpenedZip(io)
        /\ SameEntries(fit_file_index, prev.index)

\* the archives of the export and their recording files, as the indexing pass sees them
ZipFiles == SelectSeq(disk, LAMBDA f : f.path.family = ZIP_FAMILY)
IsRecording(member) == member.filename.ext \in {"fit", "FIT"}
SomeCorrupt ==
    \E a \in 1..Len(ZipFiles) : \E m \in 1..Len(ZipFiles[a].data) :
        IsRecording(ZipFiles[a].data[m]) /\ ZipFiles[a].data[m].content.parse_error
OpenedAll(log) ==
    \A a \in 1..Len(ZipFiles) : \E i \in 1..Len(log) : log[i] = OpenZip(Path(ZipFiles[a].path))
Indexing == InIo(Stage("load_fit_file_index"))

\* C5: an indexing pass that meets a recording file that does not decode ends the
\* construction in failure and writes no cache (the cache file stays absent or
\* empty); a pass writes the cache only after it has opened every archive, and
\* then the facade is ready with the entries it wrote.
C5_DecodeFailureAborts ==
    Indexing =>
        /\ SomeCorrupt =>
              /\ pc = "failed"
              /\ ~InIo(WriteCache)
              /\ cacheFile.exists => cacheFile.content = <<>>
        /\ InIo(WriteCache) =>
              /\ OpenedAll(io)
              /\ io[Len(io)] = WriteCache
              /\ pc = "ready"
              /\ cacheFile = FileOf(cache_fit_file_index(fit_file_index))
        /\ pc = "ready" => InIo(WriteCache)

\* a pass that had indexed one recording when the next one failed to decode
C5_Witness ==
    /\ Indexing
    /\ pc = "failed"
    /\ error = "Failed to parse FIT file"
    /\ Len(ZipFiles) = 1
    /\ Len(ZipFiles[1].data) = 2
    /\ ~ZipFiles[1].data[1].content.parse_error
    /\ IsRecording(ZipFiles[1].data[1])
    /\ \E i \in 1..Len(ZipFiles[1].data[1].content.messages) :
          ZipFiles[1].data[1].content.messages[i].name = "session"
    /\ ~cacheFile.exists

\* a step that serves download_activity in the original format
DownloadStep ==
    /\ pc = "ready"
    /\ pc' = "ready"
    /\ call'.op = "download_activity"
    /\ call'.args[2] = ORIGINAL
NoEntryWithin(id) ==
    \A i \in 1..Len(fit_file_index) : DeltaTo(fit_file_index[i], id) > 300

\* C7: download_activity in the original format ends in the facade's own error
\* exactly when no activity has the identifier or no index entry lies within 300
\* seconds of the activity's start; it then returns nothing and leaves the export,
\* the cache file, the loaded collections and the index, which are all that a
\* query reads, as they were.
C7_FailureIsLocal ==
    [][DownloadStep =>
        /\ (call'.status = "fail") <=>
              (~HasActivity(call'.args[1]) \/ NoEntryWithin(call'.args[1]))
        /\ call'.status = "fail" =>
              /\ call'.matched = None /\ call'.opened = None
              /\ call'.value \in {"Activity ID not found", "No matching FIT file found"}
              /\ UNCHANGED <<disk, cacheFile, pc, all_files, activities, sleep_stats,
                             agg_stats, hydration_stats, fit_file_index>>
    ]_vars

\* the failing download of an activity whose nearest recording is 301 seconds away
C7_Witness ==
    /\ DownloadedOriginal
    /\ call.status = "fail"
    /\ HasActivity(call.args[1])
    /\ \E i \in 1..Len(fit_file_index) : DeltaTo(fit_file_index[i], call.args[1]) = 301

\* the activity summaries of the export, as written in its files
RawSummaries ==
    LET files == SelectSeq(disk, LAMBDA f : f.path.family = SUMMARY_FAMILY)
    IN  Flatten([i \in 1..Len(files) |->
                    Flatten([b \in 1..Len(files[i].data) |->
                                files[i].data[b]["summarizedActivitiesExport"]])])
SameActivity(a, x) ==
    a["activityId"] = x["activityId"] /\ a["startTimeGmt"] = x["startTimeGmt"]
\* the start of x, cut to the second, lies in [s 00:00:00, e 23:59:59]
StartsWithin(x, s, e) ==
    /\ s.day * 86400 <= x["startTimeGmt"] \div 1000
    /\ x["startTimeGmt"] \div 1000 <= e.day * 86400 + 23 * 3600 + 59 * 60 + 59

\* C8: for s not after e, get_activities_by_date(s, e) returns every activity of
\* the export whose normalized start time lies in [s 00:00:00, e 23:59:59], as
\* often as the export holds it, and nothing else.
C8_RangeIsExact ==
    (call.op = "get_activities_by_date" /\ call.args[1].day <= call.args[2].day) =>
        LET ret == call.value
            raw == RawSummaries
        IN  /\ \A i \in 1..Len(ret) : \E j \in 1..Len(raw) : SameActivity(ret[i], raw[j])
            /\ \A j \in 1..Len(raw) :
                  Cardinality({i \in 1..Len(ret) : SameActivity(ret[i], raw[j])}) =
                      IF StartsWithin(raw[j], call.args[1], call.args[2])
                      THEN Cardinality({k \in 1..Len(raw) : SameActivity(raw[k], raw[j])})
                      ELSE 0

\* a range that keeps an activity of the last millisecond of its last day and
\* leaves out one that starts at the next midnight
C8_Witness ==
    /\ call.op = "get_activities_by_date"
    /\ call.args[1].day <= call.args[2].day
    /\ Len(call.value) = 1
    /\ call.value[1]["startTimeGmt"] = (call.args[2].day + 1) * 86400 * 1000 - 1
    /\ \E j \in 1..Len(RawSummaries) :
          RawSummaries[j]["startTimeGmt"] = (call.args[2].day + 1) * 86400 * 1000

\* C9: download_activity in a format other than the original returns an empty
\* result, whatever the identifier and the index are; it matches no entry and
\* opens no archive.
C9_OtherFormatIsEmpty ==
    (call.op = "download_activity" /\ call.args[2] # ORIGINAL) =>
        /\ call.status = "ok"
        /\ call.value = <<>>
        /\ call.matched = None
        /\ call.opened = None

\* the other format asked for an identifier no activity has
C9_Witness ==
    /\ call.op = "download_activity"
    /\ call.args[2] = TCX
    /\ ~HasActivity(call.args[1])
    /\ call.status = "ok"

NoFiles(family) == \A i \in 1..Len(disk) : disk[i].path.family # family

\* C10: without a sleep file, and without an aggregate file, construction ends in
\* failure in that family's merger and never completes; without a summary file
\* the activity loader completes with an empty collection, construction can only
\* fail in a later stage, and get_activities_by_date returns nothing.
C10_MandatoryFamilies ==
    /\ (NoFiles(SLEEP_FAMILY) /\ InIo(Stage("load_sleep_stats"))) =>
          pc = "failed" /\ error = "Failed to find any sleep stats files"
    /\ (NoFiles(AGG_FAMILY) /\ InIo(Stage("load_agg_stats"))) =>
          pc = "failed" /\ error = "Failed to find any aggregated stats files"
    /\ pc = "ready" => ~NoFiles(SLEEP_FAMILY) /\ ~NoFiles(AGG_FAMILY)
    /\ NoFiles(SUMMARY_FAMILY) =>
          /\ Len(activities) = 0
          /\ pc = "failed" => InIo(Stage("load_sleep_stats"))
          /\ call.op = "get_activities_by_date" => call.status = "ok" /\ Len(call.value) = 0

\* a facade built from an export without summary files has served a range query
C10_Witness ==
    /\ NoFiles(SUMMARY_FAMILY)
    /\ pc = "ready"
    /\ call.op = "get_activities_by_date"
    /\ call.args[1].day < call.args[2].day
    /\ Len(call.value) = 0

\* the hydration entries of the export, in the order the merger meets them
HydrationObjects ==
    LET objs == SelectSeq(FamilyObjects(AGG_FAMILY), LAMBDA o : "hydration" \in DOMAIN o)
    IN  [i \in 1..Len(objs) |-> objs[i]["hydration"]]
HydrationOn(d) == SelectSeq(HydrationObjects, LAMBDA h : h["calendarDate"].day = d.day)
RepeatedHydration ==
    \E i, j \in 1..Len(HydrationObjects) :
        i < j /\ HydrationObjects[i]["calendarDate"].day = HydrationObjects[j]["calendarDate"].day

\* C11: an aggregate merge that meets hydration entries of one calendar date, in
\* one file or across files, and no two daily entries of one date does not fail
\* (a construction that fails after it fails in the indexing pass);
\* get_hydration_data(d) returns the hydration entry for d that was merged last,
\* and an empty record when the export has no hydration entry for d.
C11_HydrationLastWins ==
    /\ (RepeatedHydration /\ OnePerDate(DailyObjects) /\ InIo(Stage("load_agg_stats")))
          => (pc = "failed" => InIo(Stage("load_fit_file_index")))
    /\ call.op = "get_hydration_data" =>
          LET on == HydrationOn(call.args[1])
          IN  /\ call.status = "ok"
              /\ call.value = IF on = <<>> THEN EmptyDict ELSE on[Len(on)]

\* two hydration entries of one date in two aggregate files, the later one returned
C11_Witness ==
    /\ call.op = "get_hydration_data"
    /\ Len(SelectSeq(disk, LAMBDA f : f.path.family = AGG_FAMILY)) = 2
    /\ Len(HydrationOn(call.args[1])) = 2
    /\ HydrationOn(call.args[1])[1]["valueInML"] # HydrationOn(call.args[1])[2]["valueInML"]
    /\ call.value["valueInML"] = HydrationOn(call.args[1])[2]["valueInML"]

\* the session messages of a recording file, and the last of them
Sessions(member) == SelectSeq(member.content.messages, LAMBDA m : m.name = "session")
HasSession(member) == ~member.content.parse_error /\ Sessions(member) # <<>>
SessionOf(member) == Sessions(member)[Len(Sessions(member))]
\* the activity type of a session, "Unknown" when it has none
SportOf(msg) ==
    IF "sport" \in DOMAIN msg.fields /\ msg.fields["sport"] # <<>>
    THEN msg.fields["sport"][1] ELSE "Unknown"
\* the entry the index is to hold for a recording file with a session
EntryFor(a, m) ==
    [date          |-> [ts |-> SessionOf(ZipFiles[a].data[m]).fields["start_time"].ts,
                        aware |-> TRUE],
     activity      |-> SportOf(SessionOf(ZipFiles[a].data[m])),
     zip_file_name |-> [path |-> ZipFiles[a].path],
     fit_file_name |-> ZipFiles[a].data[m].filename]
Indexed(a, m) == IsRecording(ZipFiles[a].data[m]) /\ HasSession(ZipFiles[a].data[m])
FromMember(entry, a, m) ==
    /\ entry.zip_file_name = [path |-> ZipFiles[a].path]
    /\ entry.fit_file_name = ZipFiles[a].data[m].filename

\* C12: after an indexing pass that completes, the index holds exactly one entry
\* for every archive entry with the recording extension, in either case, that
\* has a session message, with the session's start time in UTC and its activity
\* type, "Unknown" when the session has none; and no entry for any other archive
\* entry.
C12_IndexIsExact ==
    (Indexing /\ pc = "ready") =>
        \A a \in 1..Len(ZipFiles) : \A m \in 1..Len(ZipFiles[a].data) :
            LET from == {i \in 1..Len(fit_file_index) : FromMember(fit_file_index[i], a, m)}
            IN  IF Indexed(a, m)
                THEN /\ Cardinality(from) = 1
                     /\ \A i \in from : fit_file_index[i] = EntryFor(a, m)
                ELSE from = {}

\* the stages a construction has started, in the order it started them
StagesRun ==
    LET evs == SelectSeq(io, LAMBDA e : e.ev = "stage")
    IN  [i \in 1..Len(evs) |-> evs[i].what]
\* the order of the stages: catalog scan, sleep merge, aggregate and hydration
\* merge, activity loading, cache check, indexing pass
StageOrder ==
    <<"get_all_files", "load_sleep_stats", "load_agg_stats", "load_activities",
      "load_cached_fit_file_index", "load_fit_file_index">>
IsPrefix(a, b) == Len(a) <= Len(b) /\ \A i \in 1..Len(a) : a[i] = b[i]

\* C13: the stages a construction has started are, in order, the first stages of
\* catalog scan, sleep merge, aggregate and hydration merge, activity loading,
\* cache check and indexing pass, so that a construction that has failed has
\* started no stage after the one that failed; and a query is served only by a
\* facade whose construction has completed the cache check.
C13_StagesInOrder ==
    /\ IsPrefix(StagesRun, StageOrder)
    /\ call.op # "none" =>
          pc = "ready" /\ InIo(Stage("load_cached_fit_file_index"))

====
